---- MODULE Spec2Model ----
(***************************************************************************)
(* cppcheck_map_html: the transform of cppcheck's text report into HTML    *)
(* fragments (map_findings) and the command line boundary around it        *)
(* (process).                                                              *)
(*                                                                         *)
(* A text is a sequence of one-character strings, so that the splits, the  *)
(* prefix test and the replacement of the source act on the characters of  *)
(* the input.  The fixed literals of the program that no operation looks   *)
(* into (the base URL, the pieces of the URL template) are single          *)
(* elements of such a sequence.                                            *)
(***************************************************************************)
EXTENDS Naturals, Sequences, FiniteSets

VARIABLES argv, feed, pc, folder_memo, job_warnings, out, stdout, returned, hist

vars == <<argv, feed, pc, folder_memo, job_warnings, out, stdout, returned, hist>>

(* The longest input stream of a run. *)
MaxLines == 3

(***************************************************************************)
(* Python's str operations, as the source uses them.                       *)
(***************************************************************************)

Whitespace == {" ", "\n", "\t"}

Drop(s, k) == SubSeq(s, k + 1, Len(s))

RECURSIVE LStripSet(_, _)
LStripSet(s, chars) ==
    IF s # <<>> /\ Head(s) \in chars THEN LStripSet(Tail(s), chars) ELSE s

RECURSIVE RStripSet(_, _)
RStripSet(s, chars) ==
    IF s # <<>> /\ s[Len(s)] \in chars
    THEN RStripSet(SubSeq(s, 1, Len(s) - 1), chars)
    ELSE s

(* str.strip() *)
Strip(s) == RStripSet(LStripSet(s, Whitespace), Whitespace)

(* str.lstrip("[") *)
LStrip(s, c) == LStripSet(s, {c})

(* str.startswith(prefix) *)
StartsWith(s, prefix) ==
    Len(prefix) <= Len(s) /\ SubSeq(s, 1, Len(prefix)) = prefix

(* c in s, for a one-character c *)
Contains(s, c) == \E i \in DOMAIN s : s[i] = c

(* str.find(sep) + 1: the position of the first occurrence, 0 if none *)
RECURSIVE FindFrom(_, _, _)
FindFrom(s, sep, i) ==
    IF i + Len(sep) - 1 > Len(s) THEN 0
    ELSE IF \A k \in 1..Len(sep) : s[i + k - 1] = sep[k] THEN i
    ELSE FindFrom(s, sep, i + 1)

Find(s, sep) == FindFrom(s, sep, 1)

(* str.split(sep, 1): one part when sep does not occur, else the two parts *)
(* around its first occurrence *)
Split1(s, sep) ==
    LET i == Find(s, sep)
    IN  IF i = 0 THEN <<s>>
        ELSE <<SubSeq(s, 1, i - 1), Drop(s, i + Len(sep) - 1)>>

(* str.split(sep): every part *)
RECURSIVE SplitAll(_, _)
SplitAll(s, sep) ==
    LET i == Find(s, sep)
    IN  IF i = 0 THEN <<s>>
        ELSE <<SubSeq(s, 1, i - 1)>> \o SplitAll(Drop(s, i + Len(sep) - 1), sep)

(* str.replace(old, new): every non-overlapping occurrence, left to right *)
RECURSIVE Replace(_, _, _)
Replace(s, old, new) ==
    LET i == Find(s, old)
    IN  IF old = <<>> \/ i = 0 THEN s
        ELSE SubSeq(s, 1, i - 1) \o new \o Replace(Drop(s, i + Len(old) - 1), old, new)

(* sep.join(parts) *)
RECURSIVE Join(_, _)
Join(sep, parts) ==
    IF parts = <<>> THEN <<>>
    ELSE IF Len(parts) = 1 THEN parts[1]
    ELSE parts[1] \o sep \o Join(sep, Tail(parts))

(* seq[:-1] *)
ButLast(parts) == IF parts = <<>> THEN <<>> ELSE SubSeq(parts, 1, Len(parts) - 1)

(***************************************************************************)
(* pathlib.Path(text).parts on a POSIX build: the root ("/", or "//" for   *)
(* exactly two leading slashes) and then the segments between slashes that *)
(* are neither empty nor ".".                                              *)
(***************************************************************************)

RECURSIVE Segments(_)
Segments(pieces) ==
    IF pieces = <<>> THEN <<>>
    ELSE IF Head(pieces) = <<>> \/ Head(pieces) = <<".">> THEN Segments(Tail(pieces))
    ELSE <<Head(pieces)>> \o Segments(Tail(pieces))

PathParts(path) ==
    LET slashes == Len(path) - Len(LStrip(path, "/"))
        root    == IF slashes = 0 THEN <<>>
                   ELSE IF slashes = 2 THEN << <<"/", "/">> >>
                   ELSE << <<"/">> >>
    IN  root \o Segments(SplitAll(path, <<"/">>))

(***************************************************************************)
(* The literals of map_findings.                                           *)
(***************************************************************************)

BASE_URL == <<"https://bitbucket.example.com/">>

NOWHERE_LAND == <<"N", "O", "W", "H", "E", "R", "E", "_", "L", "A", "N", "D">>

error == <<"e", "r", "r", "o", "r">>
information == <<"i", "n", "f", "o", "r", "m", "a", "t", "i", "o", "n">>
style == <<"s", "t", "y", "l", "e">>
performance == <<"p", "e", "r", "f", "o", "r", "m", "a", "n", "c", "e">>
portability == <<"p", "o", "r", "t", "a", "b", "i", "l", "i", "t", "y">>
warning == <<"w", "a", "r", "n", "i", "n", "g">>
performance_inconclusive == performance \o <<",", " ", "i", "n", "c", "o", "n", "c", "l", "u", "s", "i", "v", "e">>
style_inconclusive == style \o <<",", " ", "i", "n", "c", "o", "n", "c", "l", "u", "s", "i", "v", "e">>
nn == <<"n", "n">>

(* level_prefix_map: the class of the <span> each key opens *)
level_prefix_map ==
    [k \in {error, information, style, performance, portability, warning,
            performance_inconclusive, style_inconclusive, nn} |->
        CASE k = error -> "sp-err"
          [] k = information -> "sp-info"
          [] k = style -> "sp-style"
          [] k = performance -> "sp-perf"
          [] k = portability -> "sp-port"
          [] k = warning -> "sp-warn"
          [] k = performance_inconclusive -> "sp-perf-unsure"
          [] k = style_inconclusive -> "sp-style-unsure"
          [] k = nn -> "sp-nn"]

(* a variant of LevelDisplay whose default is no class at all *)
LevelDisplayNoDefault(level) ==
    IF level \in DOMAIN level_prefix_map THEN level_prefix_map[level] ELSE ""

(* level_prefix_map.get(level, level_prefix_map["nn"]) *)
LevelDisplay(level) ==
    IF level \in DOMAIN level_prefix_map THEN level_prefix_map[level]
    ELSE level_prefix_map[nn]

(* f'{"/".join(pathlib.Path(path).parts[:-1])}/' *)
FolderOf(path) == Join(<<"/">>, ButLast(PathParts(path))) \o <<"/">>

(* a variant of HeadingNeeded that compares the directory with the memo *)
HeadingNeededByFolder(path, memo) == FolderOf(path) # memo

(* not path.startswith(folder_memo) *)
HeadingNeeded(path, memo) == ~StartsWith(path, memo)

(* f'{path.replace(folder_memo, "")}:{number}' *)
Display(path, memo, number) == Replace(path, memo, <<>>) \o <<":">> \o number

(* a variant of SplitFinding that splits at every ") " and keeps two parts *)
SplitFindingEvery(rest) ==
    LET parts == SplitAll(rest, <<")", " ">>)
    IN  IF Len(parts) < 2 THEN parts ELSE <<parts[1], parts[2]>>

(* rest.split(") ", 1) *)
SplitFinding(rest) == Split1(rest, <<")", " ">>)

(* f'{BASE_URL}projects/{project}/repos/{repo}/browse/{path}?at={commit}#{number}' *)
Url(project, repo, commit, path, number) ==
    BASE_URL \o <<"projects/">> \o project \o <<"/repos/">> \o repo
        \o <<"/browse/">> \o path \o <<"?at=">> \o commit \o <<"#">> \o number

(* f'[<a href="{url}" class="no-decor">{display}</a>]' *)
Link(url, display) == [href |-> url, label |-> display]

(* f'<h2>{folder_memo}</h2>' *)
Heading(memo) == [kind |-> "h2", text |-> memo]

(* f'<p class="finding"><span class="ff-075">{links joined by " -&gt; "}: </span> *)
(*   {level_prefix}{level}</span><span class="ff-075"> {finding}</span></p>'      *)
Paragraph(links, level, finding) ==
    [kind |-> "p", links |-> links, arrow |-> IF Len(links) = 2 THEN "-&gt;" ELSE "",
     badge |-> LevelDisplay(level), level |-> level, finding |-> finding]

(* f'<h2>Warnings from Job Execution</h2><pre>{nl.join(job_warnings)}</pre>' *)
WarningsBlock(warnings) == [kind |-> "warnings", lines |-> warnings]

(* a variant of TrailingBlock that does not look at the bucket *)
TrailingBlockAlways(warnings) == <<WarningsBlock(warnings)>>

(* if job_warnings: yield the block *)
TrailingBlock(warnings) ==
    IF warnings # <<>> THEN <<WarningsBlock(warnings)>> ELSE <<>>

(***************************************************************************)
(* One pass of the loop of map_findings over a line.  The result is the    *)
(* folder memo and the bucket after the pass, the fragments it yielded,    *)
(* and whether it ended the generator with a ValueError.                   *)
(***************************************************************************)

Pass(memo, frags, warnings, raised) ==
    [memo |-> memo, frags |-> frags, warnings |-> warnings, raised |-> raised]

(* the tail shared by both shapes: heading, displays, level and finding, links *)
Emit(record, primary, locations, rest, memo, warnings, project, repo, commit) ==
    LET heading  == HeadingNeeded(primary, memo)
        memo2    == IF heading THEN FolderOf(primary) ELSE memo
        yielded  == IF heading THEN <<Heading(memo2)>> ELSE <<>>
        parts    == SplitFinding(rest)
        links    == [i \in DOMAIN locations |->
                        Link(Url(project, repo, commit, locations[i][1], locations[i][2]),
                             Display(locations[i][1], memo2, locations[i][2]))]
    IN  IF Len(parts) # 2
        THEN Pass(memo2, yielded, Append(warnings, record), FALSE)
        ELSE Pass(memo2, Append(yielded, Paragraph(links, parts[1], parts[2])),
                  warnings, FALSE)

(* the branch taken when line_number holds a "[" *)
RelationRecord(record, rest, memo, warnings, project, repo, commit) ==
    LET address_parts == Split1(record, <<"]", ":", " ", "(">>)[1]
        sides         == Split1(LStrip(address_parts, "["), <<"]", " ", "-", ">", " ", "[">>)
        left          == Split1(sides[1], <<":">>)
        right         == Split1(sides[2], <<":">>)
    IN  IF Len(sides) # 2 THEN Pass(memo, <<>>, warnings, TRUE)
        ELSE IF Len(left) # 2 \/ Len(right) # 2 THEN Pass(memo, <<>>, warnings, TRUE)
        ELSE Emit(record, left[1], <<left, right>>, rest, memo, warnings,
                  project, repo, commit)

LoopBody(line, memo, warnings, project, repo, commit) ==
    LET record == Strip(line)
        split  == Split1(record, <<"]", ":", " ", "(">>)
        where  == Split1(LStrip(split[1], "["), <<":">>)
    IN  IF record = <<>> THEN Pass(memo, <<>>, warnings, FALSE)
        ELSE IF Len(split) # 2 THEN Pass(memo, <<>>, Append(warnings, record), FALSE)
        ELSE IF Len(where) # 2 THEN Pass(memo, <<>>, Append(warnings, record), FALSE)
        ELSE IF Contains(where[2], "[")
             THEN RelationRecord(record, split[2], memo, warnings, project, repo, commit)
             ELSE Emit(record, where[1], <<where>>, split[2], memo, warnings,
                       project, repo, commit)

(***************************************************************************)
(* The input.  The environment writes each line of the stream from a       *)
(* description: a single-location finding, a relation finding, or any      *)
(* other text.  map_findings is handed the text of the line alone; the     *)
(* description is kept beside it in hist so that the properties can speak  *)
(* of the path, number, level and message the line was written from.       *)
(***************************************************************************)

Single(p, n, lvl, msg) ==
    [kind |-> "single", left |-> <<p, n>>, right |-> <<>>, lvl |-> lvl, msg |-> msg]

Relation(pa, na, pb, nb, lvl, msg) ==
    [kind |-> "relation", left |-> <<pa, na>>, right |-> <<pb, nb>>, lvl |-> lvl, msg |-> msg]

Raw(text) ==
    [kind |-> "raw", left |-> <<>>, right |-> <<>>, lvl |-> <<>>, msg |-> text]

Location(loc) == <<"[">> \o loc[1] \o <<":">> \o loc[2]

(* the text of a line as the stream delivers it, its line end included *)
LineOf(d) ==
    CASE d.kind = "single" ->
            Location(d.left) \o <<"]", ":", " ", "(">> \o d.lvl \o <<")", " ">> \o d.msg \o <<"\n">>
      [] d.kind = "relation" ->
            Location(d.left) \o <<"]", " ", "-", ">", " ">> \o Location(d.right)
                \o <<"]", ":", " ", "(">> \o d.lvl \o <<")", " ">> \o d.msg \o <<"\n">>
      [] OTHER -> d.msg

pABX == <<"a", "/", "b", "/", "x">>
pABY == <<"a", "/", "b", "/", "y">>
pACZ == <<"a", "/", "c", "/", "z">>
pAW == <<"a", "/", "w">>
pAAY == <<"a", "/", "a", "/", "y">>
pX == <<"x">>
pRootAX == <<"/", "a", "/", "x">>
pBAY == <<"b", "/", "a", "/", "y">>

Paths == {pABX, pABY, pACZ, pAW, pAAY, pX, pRootAX}

n7 == <<"7">>
n10 == <<"1", "0">>

note == <<"n", "o", "t", "e">>

KnownLevels ==
    {error, information, style, performance, portability, warning,
     performance_inconclusive, style_inconclusive}

Levels == KnownLevels \cup {nn, note}

mPlain == <<"m">>
mParen == <<"f", ")", " ", "g", ")", " ", "h">>

blankLine == <<"\n">>
spacesLine == <<" ", " ", "\n">>
noiseLine == <<"n", "o", "i", "s", "e", "\n">>
paddedLine == <<" ", "j", "o", "b", " ", "\n">>
(* "[a/b/x]: (error) m": no ":" in the address *)
noColonLine == <<"[">> \o pABX \o <<"]", ":", " ", "(">> \o error \o <<")", " ", "m", "\n">>
(* "[a/b/x:7]: (error)": no ") " after the level *)
noFindingLine == Location(<<pABX, n7>>) \o <<"]", ":", " ", "(">> \o error \o <<")", "\n">>
(* "[a/c/z:7] -> [a/b/x:10]: (error)": a relation with no ") " after the level *)
noFindingRelation ==
    Location(<<pACZ, n7>>) \o <<"]", " ", "-", ">", " ">> \o Location(<<pABX, n10>>)
        \o <<"]", ":", " ", "(">> \o error \o <<")", "\n">>
(* "[a/b/x:7[1]: (error) m": a "[" after the first ":" and no "] -> [" *)
bracketLine ==
    <<"[">> \o pABX \o <<":", "7", "[", "1", "]", ":", " ", "(">> \o error \o <<")", " ", "m", "\n">>
(* "[a/b/x:7] -> [a/b/y]: (error) m": the right location has no ":" *)
rightNoColonLine ==
    Location(<<pABX, n7>>) \o <<"]", " ", "-", ">", " ", "[">> \o pABY
        \o <<"]", ":", " ", "(">> \o error \o <<")", " ", "m", "\n">>
(* "[a/b/x] -> [a/b/y:7[]: (error) m": the left location has no ":" *)
leftNoColonLine ==
    <<"[">> \o pABX \o <<"]", " ", "-", ">", " ", "[">> \o pABY \o <<":", "7", "[">>
        \o <<"]", ":", " ", "(">> \o error \o <<")", " ", "m", "\n">>

RaisingLines == {bracketLine, rightNoColonLine, leftNoColonLine}

(* well-formed findings over the paths, and a few other lines *)
FeedRecords ==
    {Single(p, n7, error, mPlain) : p \in Paths}
    \cup {Single(pABY, n10, warning, mParen),
          Relation(pABX, n7, pABY, n10, error, mPlain),
          Relation(pABX, n7, pACZ, n10, style_inconclusive, mParen),
          Relation(pAW, n7, pAAY, n10, error, mPlain),
          Relation(pAW, n7, pBAY, n10, note, mPlain),
          Relation(pX, n7, pX, n10, error, mPlain)}
    \cup {Raw(blankLine), Raw(noiseLine), Raw(noFindingLine), Raw(bracketLine)}

(* every level, in both shapes *)
FeedLevels ==
    {Single(pABX, n7, lvl, mPlain) : lvl \in Levels}
    \cup {Relation(pABX, n7, pABY, n10, lvl, mPlain) : lvl \in Levels}
    \cup {Raw(noiseLine)}

(* the lines that match neither shape, among a few that do *)
FeedNoise ==
    {Raw(t) : t \in {blankLine, spacesLine, noiseLine, paddedLine, noColonLine,
                     noFindingLine, noFindingRelation} \cup RaisingLines}
    \cup {Single(pABX, n7, error, mPlain), Single(pACZ, n7, note, mPlain),
          Relation(pABX, n7, pABY, n10, warning, mPlain)}

(***************************************************************************)
(* process(argv).                                                          *)
(***************************************************************************)

ArgVectors ==
    { <<>>,
      << <<"[", "]">> >>,
      << <<"P">>, <<"R">>, <<"B">> >>,
      << <<"P">>, <<"R">>, <<"B">>, <<"C">> >>,
      << <<"P">>, <<"R">>, <<"B">>, <<"C">>, <<"D">> >> }

(* print("Usage: ..."); print(f"Received ({argv}) argument vector") *)
UsageMessage(args) ==
    << [kind |-> "text",
        text |-> "Usage: script project repo branch commit < text_report > html_report"],
       [kind |-> "received", argv |-> args] >>

(* print(PAGE_PREFIX); print(f"<p>Report generated for ... UTC</p>"); the  *)
(* time of day in that line is left out                                    *)
PageHead(args) ==
    << [kind |-> "text", text |-> "PAGE_PREFIX"],
       [kind |-> "report", project |-> args[1], repo |-> args[2], branch |-> args[3],
        commit |-> args[4]] >>

(* print(PAGE_POSTFIX) *)
PageFoot == << [kind |-> "text", text |-> "PAGE_POSTFIX"] >>

(* the lines the stream of a run may deliver, by the name of the feed *)
FeedOf(name) ==
    CASE name = "records" -> FeedRecords
      [] name = "levels" -> FeedLevels
      [] name = "noise" -> FeedNoise

InitWith(name) ==
    /\ argv \in ArgVectors
    /\ feed = name
    /\ pc = "start"
    /\ folder_memo = NOWHERE_LAND
    /\ job_warnings = <<>>
    /\ out = <<>>
    /\ stdout = <<>>
    /\ returned = <<>>
    /\ hist = <<>>

Init == InitWith("records")

InitLevels == InitWith("levels")

InitNoise == InitWith("noise")

(* if len(argv) != 4: the usage message, return 2 *)
Usage ==
    /\ pc = "start"
    /\ Len(argv) # 4
    /\ stdout' = stdout \o UsageMessage(argv)
    /\ returned' = <<2>>
    /\ pc' = "done"
    /\ UNCHANGED <<argv, feed, folder_memo, job_warnings, out, hist>>

(* project, repo, branch, commit = argv; the page head *)
Begin ==
    /\ pc = "start"
    /\ Len(argv) = 4
    /\ stdout' = stdout \o PageHead(argv)
    /\ pc' = "run"
    /\ UNCHANGED <<argv, feed, folder_memo, job_warnings, out, returned, hist>>

(* the for loop of process takes the next fragments of map_findings, which *)
(* reads one more line of the stream and runs the loop body on it          *)
Step ==
    /\ pc = "run"
    /\ Len(hist) < MaxLines
    /\ \E d \in FeedOf(feed) :
        \E r \in {LoopBody(LineOf(d), folder_memo, job_warnings, argv[1], argv[2], argv[4])} :
            /\ folder_memo' = r.memo
            /\ job_warnings' = r.warnings
            /\ out' = out \o r.frags
            /\ stdout' = stdout \o r.frags
            /\ pc' = IF r.raised THEN "raised" ELSE "run"
            /\ hist' = Append(hist, [src |-> d, memo |-> folder_memo, after |-> r.memo,
                                     frags |-> r.frags,
                                     bucketed |-> r.warnings # job_warnings,
                                     raised |-> r.raised])
    /\ UNCHANGED <<argv, feed, returned>>

(* the stream is exhausted: the trailing block, the page foot, return 0 *)
Finish ==
    /\ pc = "run"
    /\ out' = out \o TrailingBlock(job_warnings)
    /\ stdout' = stdout \o TrailingBlock(job_warnings) \o PageFoot
    /\ returned' = <<0>>
    /\ pc' = "done"
    /\ UNCHANGED <<argv, feed, folder_memo, job_warnings, hist>>

Next == Usage \/ Begin \/ Step \/ Finish

Spec == Init /\ [][Next]_vars

SpecLevels == InitLevels /\ [][Next]_vars

SpecNoise == InitNoise /\ [][Next]_vars

(***************************************************************************)
(* The vocabulary of the properties.  hist[i] is the i-th line read: the   *)
(* description it was written from (src), the folder memo before (memo)    *)
(* and after (after) the pass, the fragments the pass yielded (frags),     *)
(* whether the pass put the line into the bucket (bucketed) and whether it *)
(* raised.                                                                 *)
(***************************************************************************)

WellFormed(h) == h.src.kind \in {"single", "relation"}

Primary(h) == h.src.left[1]

IsHeading(f) == f.kind = "h2"

IsParagraph(f) == f.kind = "p"

IsWarnings(f) == f.kind = "warnings"

HasHeading(h) == h.frags # <<>> /\ IsHeading(h.frags[1])

Paragraphs(frags) == SelectSeq(frags, IsParagraph)

Terminated == pc \in {"done", "raised"}

(* BASE_URL + projects/{project}/repos/{repo}/browse/{p}?at={commit}#{n} *)
Browse(loc) ==
    <<"https://bitbucket.example.com/", "projects/">> \o argv[1] \o <<"/repos/">> \o argv[2]
        \o <<"/browse/">> \o loc[1] \o <<"?at=">> \o argv[4] \o <<"#">> \o loc[2]

(* p with the leading occurrence of the memo removed, followed by ":n" *)
LabelLessPrefix(loc, memo) ==
    (IF StartsWith(loc[1], memo) THEN Drop(loc[1], Len(memo)) ELSE loc[1])
        \o <<":">> \o loc[2]

(* C1: every well-formed single-location line yields exactly one paragraph,   *)
(* with one link whose href browses p at the commit with anchor n and whose   *)
(* label is p less the leading occurrence of the current folder memo, then    *)
(* ":n".                                                                      *)
SingleLinkAndLabel ==
    \A i \in DOMAIN hist :
        hist[i].src.kind = "single" =>
            /\ Len(Paragraphs(hist[i].frags)) = 1
            /\ \A j \in DOMAIN hist[i].frags :
                IsParagraph(hist[i].frags[j]) =>
                    /\ Len(hist[i].frags[j].links) = 1
                    /\ hist[i].frags[j].links[1].href = Browse(hist[i].src.left)
                    /\ hist[i].frags[j].links[1].label
                            = LabelLessPrefix(hist[i].src.left, hist[i].after)

(* C2: every well-formed relation line yields exactly one paragraph with two  *)
(* links, left then right, joined by "-&gt;", browsing pa#na and pb#nb; the   *)
(* heading and the memo come from the left path alone, and each label is its  *)
(* path less the current folder memo prefix, then ":number".                  *)
RelationLinksAndLabels ==
    \A i \in DOMAIN hist :
        hist[i].src.kind = "relation" =>
            /\ Len(Paragraphs(hist[i].frags)) = 1
            /\ hist[i].after \in {hist[i].memo, FolderOf(Primary(hist[i]))}
            /\ HasHeading(hist[i]) => hist[i].frags[1].text = FolderOf(Primary(hist[i]))
            /\ \A j \in DOMAIN hist[i].frags :
                IsParagraph(hist[i].frags[j]) =>
                    /\ Len(hist[i].frags[j].links) = 2
                    /\ hist[i].frags[j].arrow = "-&gt;"
                    /\ hist[i].frags[j].links[1].href = Browse(hist[i].src.left)
                    /\ hist[i].frags[j].links[2].href = Browse(hist[i].src.right)
                    /\ hist[i].frags[j].links[1].label
                            = LabelLessPrefix(hist[i].src.left, hist[i].after)
                    /\ hist[i].frags[j].links[2].label
                            = LabelLessPrefix(hist[i].src.right, hist[i].after)

(* C3 as stated: a well-formed record gets a heading exactly when the         *)
(* directory of its primary path differs from the folder memo, and the memo   *)
(* is then that directory.                                                    *)
HeadingIffFolderDiffers ==
    \A i \in DOMAIN hist :
        WellFormed(hist[i]) =>
            /\ HasHeading(hist[i]) <=> FolderOf(Primary(hist[i])) # hist[i].memo
            /\ hist[i].after = FolderOf(Primary(hist[i]))

(* a relative path in normal form with a directory: it starts with its folder *)
UnderOwnFolder(path) == StartsWith(path, FolderOf(path))

(* C3 as amended: a well-formed record gets a heading, immediately before its *)
(* paragraph, exactly when its primary path does not start with the folder    *)
(* memo; the memo then becomes the directory of that path, and is the text of *)
(* the heading.  Of two consecutive records of one directory whose paths      *)
(* start with that directory, the second gets no heading; a record whose path *)
(* does not start with its directory (no directory component: "/"; absolute   *)
(* /a/x: "//a/") gets a heading again after a record of that directory that   *)
(* got one.                                                                   *)
HeadingIffPathNotUnderMemo ==
    \A i \in DOMAIN hist :
        WellFormed(hist[i]) =>
            /\ HasHeading(hist[i]) <=> ~StartsWith(Primary(hist[i]), hist[i].memo)
            /\ HasHeading(hist[i]) =>
                /\ Len(hist[i].frags) = 2
                /\ hist[i].frags[1].text = FolderOf(Primary(hist[i]))
                /\ IsParagraph(hist[i].frags[2])
                /\ hist[i].after = FolderOf(Primary(hist[i]))
            /\ ~HasHeading(hist[i]) =>
                /\ Len(hist[i].frags) = 1
                /\ IsParagraph(hist[i].frags[1])
                /\ hist[i].after = hist[i].memo
            /\ ( /\ i > 1
                 /\ WellFormed(hist[i - 1])
                 /\ FolderOf(Primary(hist[i - 1])) = FolderOf(Primary(hist[i]))
                 /\ UnderOwnFolder(Primary(hist[i - 1]))
                 /\ UnderOwnFolder(Primary(hist[i])) )
               => ~HasHeading(hist[i])
            /\ ( /\ i > 1
                 /\ WellFormed(hist[i - 1])
                 /\ FolderOf(Primary(hist[i - 1])) = FolderOf(Primary(hist[i]))
                 /\ HasHeading(hist[i - 1])
                 /\ ~UnderOwnFolder(Primary(hist[i])) )
               => HasHeading(hist[i])

(* a/b/x, a/b/y, a/c/z were read and gave the two headings a/b/ and a/c/ *)
TwoHeadingsForThreeRecords ==
    /\ Len(hist) = 3
    /\ \A i \in 1..3 : hist[i].src.kind = "single"
    /\ <<Primary(hist[1]), Primary(hist[2]), Primary(hist[3])>> = <<pABX, pABY, pACZ>>
    /\ SelectSeq(out, IsHeading)
        = << [kind |-> "h2", text |-> <<"a", "/", "b", "/">>],
             [kind |-> "h2", text |-> <<"a", "/", "c", "/">>] >>

HasParenSpace(msg) == Find(msg, <<")", " ">>) # 0

(* C10 as stated: the message of a well-formed line that holds a ") " is     *)
(* shown cut at the first ") " of the message.                               *)
MessageCutAtParen ==
    \A i \in DOMAIN hist :
        (WellFormed(hist[i]) /\ HasParenSpace(hist[i].src.msg)) =>
            \A j \in DOMAIN hist[i].frags :
                IsParagraph(hist[i].frags[j]) =>
                    hist[i].frags[j].finding
                        = SubSeq(hist[i].src.msg, 1, Find(hist[i].src.msg, <<")", " ">>) - 1)

(* C10 as amended: the line is split once, at the ") " that closes the level, *)
(* so the paragraph of a well-formed line whose message holds a ") " shows    *)
(* the level and the whole message.                                           *)
MessageKeptWhole ==
    \A i \in DOMAIN hist :
        (WellFormed(hist[i]) /\ HasParenSpace(hist[i].src.msg)) =>
            /\ Len(Paragraphs(hist[i].frags)) = 1
            /\ \A j \in DOMAIN hist[i].frags :
                IsParagraph(hist[i].frags[j]) =>
                    /\ hist[i].frags[j].level = hist[i].src.lvl
                    /\ hist[i].frags[j].finding = hist[i].src.msg

(* a line whose message is "f) g) h" was read and its paragraph shows it all *)
ParenMessageShown ==
    \E i \in DOMAIN hist :
        /\ hist[i].src.kind = "single"
        /\ hist[i].src.msg = <<"f", ")", " ", "g", ")", " ", "h">>
        /\ \E j \in DOMAIN hist[i].frags :
            /\ IsParagraph(hist[i].frags[j])
            /\ hist[i].frags[j].finding = <<"f", ")", " ", "g", ")", " ", "h">>

(* the text of a line without the blanks and the line end around it *)
Text(h) == Strip(LineOf(h.src))

Malformed(h) == h.src.kind = "raw" /\ Text(h) # <<>>

(* C4: map_findings never raises: every malformed line goes to the bucket,   *)
(* and the lines after it are still processed.                               *)
NeverRaises ==
    /\ pc # "raised"
    /\ \A i \in DOMAIN hist : Malformed(hist[i]) => (hist[i].bucketed /\ ~hist[i].raised)

(* C5: no fragment, heading or paragraph, is emitted while processing a line *)
(* that ends up in the bucket.                                               *)
NoFragmentForBucketedLine ==
    \A i \in DOMAIN hist : hist[i].bucketed => hist[i].frags = <<>>

NoLevelSplit(h) == Text(h) # <<>> /\ Find(Text(h), <<"]", ":", " ", "(">>) = 0

(* the texts of the lines read so far that hold no "]: (", in input order *)
RECURSIVE NoiseTexts(_)
NoiseTexts(hs) ==
    IF hs = <<>> THEN <<>>
    ELSE (IF NoLevelSplit(Head(hs)) THEN <<Text(Head(hs))>> ELSE <<>>) \o NoiseTexts(Tail(hs))

HoldsNoLevelSplit(text) == Find(text, <<"]", ":", " ", "(">>) = 0

(* C6: a non-blank line with no "]: (" yields no fragment when it is read,   *)
(* and once the run is over it stands, once and in input order, in the one   *)
(* trailing block (its text taken without the blanks and the line end that   *)
(* surround it).                                                             *)
NoiseLinesReachTrailingBlock ==
    /\ \A i \in DOMAIN hist : NoLevelSplit(hist[i]) => hist[i].frags = <<>>
    /\ (Terminated /\ Len(argv) = 4 /\ NoiseTexts(hist) # <<>>) =>
        /\ out # <<>>
        /\ IsWarnings(out[Len(out)])
        /\ Len(SelectSeq(out, IsWarnings)) = 1
        /\ SelectSeq(out[Len(out)].lines, HoldsNoLevelSplit) = NoiseTexts(hist)

(* C7: the trailing block is emitted at most once, as the last fragment,     *)
(* after the whole input has been read, with the bucket as its content, and  *)
(* only if some line was put into the bucket.                                *)
TrailingBlockOnceLastNonEmpty ==
    /\ Len(SelectSeq(out, IsWarnings)) <= 1
    /\ \A k \in DOMAIN out :
        IsWarnings(out[k]) =>
            /\ k = Len(out)
            /\ pc = "done"
            /\ out[k].lines # <<>>
            /\ out[k].lines = job_warnings
            /\ \E i \in DOMAIN hist : hist[i].bucketed
    /\ \A i \in DOMAIN hist : \A j \in DOMAIN hist[i].frags : ~IsWarnings(hist[i].frags[j])

(* the run ended with paragraphs and then the trailing block *)
TrailingBlockAfterFindings ==
    /\ pc = "done"
    /\ Len(out) >= 2
    /\ IsWarnings(out[Len(out)])
    /\ IsParagraph(out[Len(out) - 1])
    /\ Len(job_warnings) >= 2

(* the class each level is to be shown with *)
ClassOf(level) ==
    CASE level = error -> "sp-err"
      [] level = information -> "sp-info"
      [] level = style -> "sp-style"
      [] level = performance -> "sp-perf"
      [] level = portability -> "sp-port"
      [] level = warning -> "sp-warn"
      [] level = performance_inconclusive -> "sp-perf-unsure"
      [] level = style_inconclusive -> "sp-style-unsure"
      [] OTHER -> "sp-nn"

(* C8: the paragraph of every well-formed line, single or relation, shows    *)
(* the level text of the line in a badge of the level's own class, and of    *)
(* the class sp-nn when the level is none of the eight known ones.           *)
BadgeClassTotal ==
    \A i \in DOMAIN hist :
        WellFormed(hist[i]) =>
            /\ Len(Paragraphs(hist[i].frags)) = 1
            /\ \A j \in DOMAIN hist[i].frags :
                IsParagraph(hist[i].frags[j]) =>
                    /\ hist[i].frags[j].level = hist[i].src.lvl
                    /\ hist[i].frags[j].badge = ClassOf(hist[i].src.lvl)
                    /\ hist[i].src.lvl \notin KnownLevels => hist[i].frags[j].badge = "sp-nn"

(* a relation with the unknown level "note" and a single-location line with  *)
(* "style, inconclusive" were read and show sp-nn and sp-style-unsure        *)
UnknownAndKnownBadgeShown ==
    /\ \E i \in DOMAIN hist :
        /\ hist[i].src.kind = "relation"
        /\ hist[i].src.lvl = <<"n", "o", "t", "e">>
        /\ \E j \in DOMAIN hist[i].frags :
            /\ IsParagraph(hist[i].frags[j])
            /\ hist[i].frags[j].badge = "sp-nn"
            /\ hist[i].frags[j].level = <<"n", "o", "t", "e">>
    /\ \E i \in DOMAIN hist :
        /\ hist[i].src.kind = "single"
        /\ hist[i].src.lvl = style_inconclusive
        /\ \E j \in DOMAIN hist[i].frags :
            /\ IsParagraph(hist[i].frags[j])
            /\ hist[i].frags[j].badge = "sp-style-unsure"

(* C9: with an argument vector of a length other than 4, process prints the  *)
(* two lines of the usage message and nothing else, returns 2 and reads no   *)
(* input; with 4 arguments it returns 0.                                     *)
ExitCodeContract ==
    /\ Len(argv) # 4 =>
        /\ hist = <<>> /\ out = <<>>
        /\ Terminated =>
            /\ returned = <<2>>
            /\ stdout = << [kind |-> "text",
                            text |-> "Usage: script project repo branch commit < text_report > html_report"],
                           [kind |-> "received", argv |-> argv] >>
    /\ (Len(argv) = 4 /\ Terminated) => returned = <<0>>

====
